---- MODULE Spec2Model ----
(***************************************************************************)
(* school-api: the Student, Teacher and Course controllers, the schema     *)
(* definitions with their beforeCreate hooks, and the CourseStudent join   *)
(* table, as a state machine over the relational store.                    *)
(*                                                                         *)
(* A handler is a chain of database calls separated by awaits.  Each       *)
(* action below is one database call together with the synchronous code    *)
(* of the handler that runs before it (back to the previous await) and     *)
(* after it (up to the next await or the response).                        *)
(***************************************************************************)
EXTENDS Integers, Sequences, FiniteSets, TLC

VARIABLES
    db,       \* db[M]: the rows of table M
    autoInc,  \* autoInc[M]: the next AUTO_INCREMENT id of table M
    year,     \* the current calendar year
    req,      \* req[s]: the request handled in slot s
    target,   \* the controller the clients of this run address
    minted,   \* history: <<M, y, auto>> when a row of M was inserted in
              \* year y, auto telling whether beforeCreate minted its code
    gone      \* history: <<M, id>> when a delete of row id answered 200

vars == <<db, autoInc, year, req, target, minted, gone>>

----------------------------------------------------------------------------
(* Bounds of the model *)

\* rows ever inserted into a table
MaxRows == 2

\* request slots: the requests that can be in flight at once
Slots == {1, 2}

\* the calendar years new Date().getFullYear() returns during a run
Years == {2025, 2026}

----------------------------------------------------------------------------
(* Values *)

\* a column holding SQL NULL
NULL == "null"

\* a query parameter that is not supplied: req.query.x is undefined, which
\* parseInt turns into the string "undefined" before scanning it
undefined == "undefined"

Models == {"Student", "Teacher", "Course"}

Tables == Models \cup {"CourseStudent"}

Has(body, f) == f \in DOMAIN body

Field(body, f) == IF Has(body, f) THEN body[f] ELSE NULL

----------------------------------------------------------------------------
(* String helpers of the JavaScript runtime *)

Char(s, i) == SubSeq(s, i, i)

IsDigit(c) == c \in {"0", "1", "2", "3", "4", "5", "6", "7", "8", "9"}

DigitVal(c) ==
    CASE c = "0" -> 0 [] c = "1" -> 1 [] c = "2" -> 2 [] c = "3" -> 3
      [] c = "4" -> 4 [] c = "5" -> 5 [] c = "6" -> 6 [] c = "7" -> 7
      [] c = "8" -> 8 [] c = "9" -> 9

RECURSIVE ScanDigits(_, _, _)
\* value of the longest run of digits of s starting at position i, given
\* the value acc of the digits already read
ScanDigits(s, i, acc) ==
    IF i > Len(s) \/ ~IsDigit(Char(s, i))
    THEN acc
    ELSE ScanDigits(s, i + 1, acc * 10 + DigitVal(Char(s, i)))

\* parseInt(s): optional sign, then leading digits; NaN when there is none
parseInt(s) ==
    LET signed == Len(s) > 0 /\ Char(s, 1) \in {"-", "+"}
        start  == IF signed THEN 2 ELSE 1
        none   == start > Len(s) \/ ~IsDigit(Char(s, start))
        mag    == ScanDigits(s, start, 0)
    IN  IF none THEN [nan |-> TRUE, val |-> 0]
        ELSE [nan |-> FALSE,
              val |-> IF signed /\ Char(s, 1) = "-" THEN 0 - mag ELSE mag]

\* parseInt(s) || d: NaN and 0 are falsy
OrDefault(p, d) == IF p.nan \/ p.val = 0 THEN d ELSE p.val

\* n.toString().padStart(w, '0')
padStart(n, w) ==
    LET s == ToString(n)
    IN  IF Len(s) >= w THEN s ELSE SubSeq("0000000000", 1, w - Len(s)) \o s

\* s.substring(0, 3).toUpperCase() for the department names of the model
toUpperCase(s) ==
    CASE s = "Mat" -> "MAT"
      [] s = "Art" -> "ART"
      [] OTHER -> s

\* s.toLowerCase() for the populate values of the model
toLowerCase(s) ==
    CASE s = "COURSES" -> "courses"
      [] OTHER -> s

RECURSIVE SplitFrom(_, _, _)
\* the pieces of s from position i on, cur being the piece read so far
SplitFrom(s, i, cur) ==
    IF i > Len(s) THEN <<cur>>
    ELSE IF Char(s, i) = "," THEN <<cur>> \o SplitFrom(s, i + 1, "")
    ELSE SplitFrom(s, i + 1, cur \o Char(s, i))

\* s.split(',')
split(s) == SplitFrom(s, 1, "")

RECURSIVE trim(_)
\* s.trim(): s without its leading and trailing blanks
trim(s) ==
    IF Len(s) > 0 /\ Char(s, 1) = " " THEN trim(SubSeq(s, 2, Len(s)))
    ELSE IF Len(s) > 0 /\ Char(s, Len(s)) = " " THEN trim(SubSeq(s, 1, Len(s) - 1))
    ELSE s

\* fault seeded for C5: Math.floor in place of Math.ceil
floor(a, b) == IF b > 0 THEN a \div b ELSE (0 - a) \div (0 - b)

\* Math.ceil(a / b) for integers a and b, b # 0
ceil(a, b) ==
    IF b > 0 THEN 0 - ((0 - a) \div b) ELSE 0 - (a \div (0 - b))

\* the code unit of the characters of a DATEONLY string
charCodeAt(c) == IF c = "-" THEN 45 ELSE 48 + DigitVal(c)

RECURSIVE LeqFrom(_, _, _)
\* a <= b for strings that agree before position i
LeqFrom(a, b, i) ==
    IF i > Len(a) THEN TRUE
    ELSE IF i > Len(b) THEN FALSE
    ELSE IF Char(a, i) = Char(b, i) THEN LeqFrom(a, b, i + 1)
    ELSE charCodeAt(Char(a, i)) < charCodeAt(Char(b, i))

\* a <= b on strings: the comparison of JavaScript, code unit by code unit
Leq(a, b) == LeqFrom(a, b, 1)

RECURSIVE join(_)
\* errors.map(e => e.message).join(",\n")
join(msgs) ==
    IF Len(msgs) = 0 THEN ""
    ELSE IF Len(msgs) = 1 THEN msgs[1]
    ELSE msgs[1] \o ",\n" \o join(Tail(msgs))

----------------------------------------------------------------------------
(* Schema layer: student.model.js, teacher.model.js (Teacher and Course)  *)

\* the attribute holding the generated code of each model
CodeField(M) ==
    CASE M = "Student" -> "studentId"
      [] M = "Teacher" -> "employeeId"
      [] M = "Course"  -> "courseCode"

\* the attributes of each model that the controllers of the model write
Attributes(M) ==
    CASE M = "Student" -> {"name", "email", "studentId"}
      [] M = "Teacher" -> {"name", "email", "employeeId", "department"}
      [] M = "Course"  -> {"title", "courseCode", "department", "credits",
                           "startDate", "endDate", "TeacherId"}

\* the columns under a unique index
UniqueFields(M) ==
    CASE M = "Student" -> {"email", "studentId"}
      [] M = "Teacher" -> {"email", "employeeId"}
      [] M = "Course"  -> {"courseCode"}

\* the foreign key of a course that has no teacher (row ids start at 1)
NoTeacher == 0

\* defaultValue of the columns that declare one
DefaultValue(M, f) ==
    IF M = "Course" /\ f = "credits" THEN 3
    ELSE IF M = "Course" /\ f = "TeacherId" THEN NoTeacher
    ELSE NULL

\* Model.build(body): the attributes of the model taken from the payload,
\* the others at their default
build(M, body) ==
    [f \in Attributes(M) |-> IF Has(body, f) THEN body[f] ELSE DefaultValue(M, f)]

RECURSIVE HasAt(_, _)
\* an "@" strictly inside s, from position i on
HasAt(s, i) ==
    IF i >= Len(s) THEN FALSE
    ELSE IF Char(s, i) = "@" /\ i > 1 THEN TRUE
    ELSE HasAt(s, i + 1)

\* validate: { isEmail: true }
isEmail(s) == HasAt(s, 1)

\* validate: { len: [lo, hi] }
len(s, lo, hi) == Len(s) >= lo /\ Len(s) <= hi

notNull(M, f) == "notNull Violation: " \o M \o "." \o f \o " cannot be null"

failed(v, f) == "Validation error: Validation " \o v \o " on " \o f \o " failed"

\* the validation errors of attribute f of instance inst, in the order the
\* validators are declared; allowNull: false is checked before the validators
AttributeErrors(M, inst, f) ==
    CASE f = "name" /\ M \in {"Student", "Teacher"} ->
           IF inst.name = NULL THEN <<notNull(M, f)>>
           ELSE (IF inst.name = "" THEN <<failed("notEmpty", f)>> ELSE <<>>)
                \o (IF len(inst.name, 2, 100) THEN <<>> ELSE <<failed("len", f)>>)
      [] f = "email" /\ M \in {"Student", "Teacher"} ->
           IF inst.email = NULL THEN <<notNull(M, f)>>
           ELSE (IF isEmail(inst.email) THEN <<>> ELSE <<failed("isEmail", f)>>)
                \o (IF inst.email = "" THEN <<failed("notEmpty", f)>> ELSE <<>>)
      [] f = "department" /\ M = "Teacher" ->
           IF inst.department = NULL THEN <<notNull(M, f)>>
           ELSE (IF inst.department = "" THEN <<failed("notEmpty", f)>> ELSE <<>>)
                \o (IF len(inst.department, 2, 100) THEN <<>> ELSE <<failed("len", f)>>)
      [] f = "title" /\ M = "Course" ->
           IF inst.title = NULL THEN <<notNull(M, f)>>
           ELSE (IF inst.title = "" THEN <<failed("notEmpty", f)>> ELSE <<>>)
                \o (IF len(inst.title, 3, 200) THEN <<>> ELSE <<failed("len", f)>>)
      [] f = "credits" /\ M = "Course" ->
           (IF inst.credits >= 1 THEN <<>> ELSE <<failed("min", f)>>)
           \o (IF inst.credits <= 10 THEN <<>> ELSE <<failed("max", f)>>)
      [] f = "endDate" /\ M = "Course" ->
           IF /\ inst.endDate \notin {NULL, ""}
              /\ inst.startDate \notin {NULL, ""}
              /\ Leq(inst.endDate, inst.startDate)
           THEN <<"Validation error: End date must be after start date">>
           ELSE <<>>
      [] OTHER -> <<>>

\* the attributes of each model in declaration order
AttributeOrder(M) ==
    CASE M = "Student" -> <<"name", "email", "studentId">>
      [] M = "Teacher" -> <<"name", "email", "employeeId", "department">>
      [] M = "Course"  -> <<"title", "courseCode", "credits", "startDate",
                            "endDate", "department", "TeacherId">>

RECURSIVE ErrorsFrom(_, _, _, _)
ErrorsFrom(M, inst, fields, i) ==
    IF i > Len(AttributeOrder(M)) THEN <<>>
    ELSE (IF AttributeOrder(M)[i] \in fields
          THEN AttributeErrors(M, inst, AttributeOrder(M)[i]) ELSE <<>>)
         \o ErrorsFrom(M, inst, fields, i + 1)

\* fault seeded for C9: validation switched off ({ validate: false })
validateNothing(M, inst, fields) == ""

\* instance.validate({fields}): "" when the instance is valid, else the
\* message of the SequelizeValidationError
validate(M, inst, fields) == join(ErrorsFrom(M, inst, fields, 1))

\* the department prefix of a course code
DeptPrefix(inst) ==
    IF inst.department # NULL /\ inst.department # ""
    THEN toUpperCase(SubSeq(inst.department, 1, 3))
    ELSE "GEN"

\* fault seeded for C7: the sequence number taken as count, not count + 1
beforeCreateFromCount(M, inst, n, y) ==
    CASE M = "Student" ->
           [inst EXCEPT !.studentId = "STU" \o ToString(y) \o padStart(n, 4)]
      [] M = "Teacher" ->
           [inst EXCEPT !.employeeId = "EMP" \o ToString(y) \o padStart(n, 4)]
      [] M = "Course" ->
           [inst EXCEPT !.courseCode = DeptPrefix(inst) \o padStart(n, 3)]

\* hooks.beforeCreate: the code minted from the row count just read
beforeCreate(M, inst, n, y) ==
    CASE M = "Student" ->
           [inst EXCEPT !.studentId = "STU" \o ToString(y) \o padStart(n + 1, 4)]
      [] M = "Teacher" ->
           [inst EXCEPT !.employeeId = "EMP" \o ToString(y) \o padStart(n + 1, 4)]
      [] M = "Course" ->
           [inst EXCEPT !.courseCode = DeptPrefix(inst) \o padStart(n + 1, 3)]

\* if (!instance.<code>): null and the empty string are falsy
NeedsCode(M, inst) == inst[CodeField(M)] \in {NULL, ""}

\* Model.count()
count(M) == Cardinality(db[M])

\* fault seeded for C20: the columns declared without unique: true
UniqueViolationUnchecked(M, vals, fields, id) == FALSE

\* a unique index rejects the values vals, written to the columns fields
\* of row id, because another row holds one of them
UniqueViolation(M, vals, fields, id) ==
    \E r \in db[M] :
        /\ r.id # id
        /\ \E f \in UniqueFields(M) \cap fields : vals[f] # NULL /\ r[f] = vals[f]

\* message of SequelizeUniqueConstraintError
UniqueMessage == "Validation error"

\* the row an INSERT of inst stores
NewRow(M, inst) ==
    [f \in Attributes(M) \cup {"id"} |-> IF f = "id" THEN autoInc[M] ELSE inst[f]]

\* the JavaScript null where an instance is expected (row ids start at 1)
null == [id |-> 0]

\* Model.findByPk(id): the row, or null
findByPk(M, id) ==
    IF \E r \in db[M] : r.id = id
    THEN CHOOSE r \in db[M] : r.id = id
    ELSE null

RECURSIVE OrderById(_)
\* the rows of a set in ascending id order
OrderById(rows) ==
    IF rows = {} THEN <<>>
    ELSE LET first == CHOOSE r \in rows : \A q \in rows : r.id <= q.id
         IN  <<first>> \o OrderById(rows \ {first})

RECURSIVE Reverse(_)
Reverse(q) == IF Len(q) = 0 THEN <<>> ELSE Reverse(Tail(q)) \o <<Head(q)>>

\* the store refuses a negative LIMIT or OFFSET
RejectsWindow(limit, offset) == limit < 0 \/ offset < 0

\* message of the SequelizeDatabaseError for a refused LIMIT/OFFSET
WindowMessage == "You have an error in your SQL syntax"

\* Model.findAll({limit, offset, order}): the window of the ordered rows.
\* Rows are created in id order, so createdAt orders them as id does.
findAll(M, limit, offset, dir) ==
    LET asc     == OrderById(db[M])
        ordered == IF dir = "DESC" THEN Reverse(asc) ELSE asc
        last    == IF offset + limit < Len(ordered) THEN offset + limit ELSE Len(ordered)
    IN  SubSeq(ordered, offset + 1, last)

----------------------------------------------------------------------------
(* Requests, and the inputs the clients draw from *)

Controllers == {"student", "teacherA", "teacherB", "course"}

\* teacherA is the controller of student.model.js lines 131-411,
\* teacherB the one of lines 459-694; both serve /teachers
ModelOf(ctl) ==
    CASE ctl = "student" -> "Student"
      [] ctl \in {"teacherA", "teacherB"} -> "Teacher"
      [] ctl = "course" -> "Course"
      [] ctl = "enrollment" -> "CourseStudent"

\* what the clients of one run address: one controller with the payloads
\* below, or the join table, or the course handlers with payloads that
\* carry dates ("schedule"), or the creates of teachers and of their
\* courses and the deletes of teachers ("staffing")
Targets == Controllers \cup {"enrollment", "schedule", "staffing"}

\* the clients of this run send operation op to controller ctl
Serves(ctl, op) ==
    \/ ctl = target
    \/ target = "schedule" /\ ctl = "course" /\ op \in {"create", "update"}
    \/ target = "staffing"
         /\ <<ctl, op>> \in {<<"teacherB", "create">>, <<"course", "create">>,
                             <<"teacherB", "delete">>}

\* the create payloads of a run that addresses the dates of courses
ScheduleBodies ==
    { [title |-> "Algebra"],
      [title |-> "Algebra", startDate |-> "2026-02-01", endDate |-> "2026-03-01"],
      [title |-> "Algebra", startDate |-> "2026-02-01", endDate |-> "2026-01-05"] }

\* the create payloads of a run that addresses teachers and their courses
StaffingBodies(M) ==
    IF M = "Teacher"
    THEN { [name |-> "Ann", email |-> "a@x.io", department |-> "Math"],
           [name |-> "Ann", email |-> "b@x.io", department |-> "Math"] }
    ELSE { [title |-> "Algebra", TeacherId |-> t.id] : t \in db["Teacher"] }

CreateBodies(M) ==
  IF target = "schedule" THEN ScheduleBodies
  ELSE IF target = "staffing" THEN StaffingBodies(M)
  ELSE
    CASE M = "Student" ->
           { [name |-> "Ann", email |-> "a@x.io"],
             [name |-> "Ann", email |-> "b@x.io"],
             [name |-> "Ann", email |-> "b@x.io", studentId |-> "STU20260002"],
             [email |-> "a@x.io"],
             [name |-> "Ann"],
             [name |-> "A", email |-> "a@x.io"],
             [name |-> "Ann", email |-> "bad"] }
      [] M = "Teacher" ->
           { [name |-> "Ann", email |-> "a@x.io", department |-> "Math"],
             [name |-> "Ann", email |-> "b@x.io", department |-> "Math"],
             [name |-> "Ann", email |-> "b@x.io", department |-> "Math",
              employeeId |-> "EMP20260002"],
             [email |-> "a@x.io", department |-> "Math"],
             [name |-> "Ann", department |-> "Math"],
             [name |-> "Ann", email |-> "a@x.io"],
             [name |-> "Ann", email |-> "bad", department |-> "Math"] }
      [] M = "Course" ->
           { [title |-> "Algebra"],
             [title |-> "Algebra", department |-> "Math"],
             [title |-> "Algebra", courseCode |-> "GEN002"],
             [department |-> "Math"],
             [title |-> "Al"],
             [title |-> "Algebra", credits |-> 0] }

UpdateBodies(M) ==
  IF target = "schedule"
  THEN { [startDate |-> "2026-03-01"], [endDate |-> "2026-01-05"] }
  ELSE
    CASE M = "Student" ->
           { [email |-> "b@x.io"], [name |-> "A"] }
      [] M = "Teacher" ->
           { [email |-> "b@x.io"], [department |-> "M"] }
      [] M = "Course" ->
           { [courseCode |-> "GEN002"], [title |-> "Al"] }

\* path parameters: the ids the table hands out, and one it never does
Ids == (1..MaxRows) \cup {999}

LimitParams == {undefined, "0", "-5", "1", "2", "101", "2x"}

PageParams == {undefined, "0", "-1", "1", "2"}

SortParams == {undefined, "asc", "up"}

SortByParams == {undefined, "name", "password"}

\* a query parameter supplied twice (?populate=courses&populate=x):
\* req.query.populate is an array, which has neither toLowerCase nor split
ArrayValue == "[array]"

PopulateParams ==
    {undefined, "courses", "COURSES", "x, courses", "all", "x,teacher", ArrayValue}

\* the query strings of the list requests: every limit, page and sort
\* without the other parameters, every sort and sortBy on the first pages,
\* and every sort and populate on the default page
Queries ==
    [limit : LimitParams, page : PageParams, sort : SortParams,
     sortBy : {undefined}, populate : {undefined}]
    \cup [limit : {undefined, "1"}, page : {undefined, "2"}, sort : SortParams,
          sortBy : SortByParams, populate : {undefined}]
    \cup [limit : {undefined}, page : {undefined}, sort : SortParams,
          sortBy : {undefined}, populate : PopulateParams]

NoBody == [none |-> "none"]

NoQuery ==
    [limit |-> undefined, page |-> undefined, sort |-> undefined,
     sortBy |-> undefined, populate |-> undefined]

\* the options of a find that has not been built
NoOptions == [limit |-> 0, offset |-> 0, order |-> <<"none", "none">>, include |-> <<>>]

NoResponse == [status |-> 0]

NoHistory == [year |-> 0, seen |-> {}, held |-> FALSE, again |-> FALSE]

\* opts holds the options the handler built for its find.  issued and hist
\* are history: the queries the request has sent, and what held when it
\* arrived
Idle ==
    [pc |-> "idle", ctl |-> "none", op |-> "none", id |-> 0, body |-> NoBody,
     query |-> NoQuery, inst |-> null, limit |-> 0, page |-> 0, total |-> 0,
     opts |-> NoOptions, issued |-> <<>>, hist |-> NoHistory, res |-> NoResponse]

\* what holds when a create of model M arrives: the year, and the kinds of
\* insert (minted code or supplied code) made into M this year
CreateHistory(M) ==
    [NoHistory EXCEPT
        !.year = year,
        !.seen = {m[3] : m \in {n \in minted : n[1] = M /\ n[2] = year}}]

\* what holds when a delete of row id of model M arrives: whether the row
\* is stored, and whether a delete of it has answered 200
DeleteHistory(M, id) ==
    [NoHistory EXCEPT
        !.held  = \E r \in db[M] : r.id = id,
        !.again = <<M, id>> \in gone]

\* a request as it arrives
Arrived(ctl, op, id, body, query) ==
    [Idle EXCEPT !.ctl = ctl, !.op = op, !.id = id, !.body = body, !.query = query]

\* res.status(201).json(row)
Created(row) == [status |-> 201, body |-> row]

\* res.json(row)
Ok(row) == [status |-> 200, body |-> row]

\* res.status(500).json({ error: err.message })
InternalError(msg) == [status |-> 500, error |-> msg]

\* res.status(400).json({ error })
BadRequest(msg) == [status |-> 400, error |-> msg]

\* res.status(404).json({ message })
NotFound(msg) == [status |-> 404, message |-> msg]

\* res.json({ message })
Deleted(msg) == [status |-> 200, message |-> msg]

\* the request of slot s ends with response r; a response is read by its
\* client (Release) before the next one is sent
Respond(s, r, e) ==
    /\ \A t \in Slots \ {s} : req[t].pc # "done"
    /\ req' = [req EXCEPT ![s] = [e EXCEPT !.pc = "done", !.res = r]]

\* the request of slot s waits at await point pc
Await(s, pc, e) == req' = [req EXCEPT ![s] = [e EXCEPT !.pc = pc]]

\* the handler of slot s throws outside its try block: the promise it
\* returned is rejected and the handler has sent nothing.  What the client
\* then sees is the router's doing: a router that does not watch the promise
\* leaves the request without a response, a router that passes the rejection
\* to its error handler answers 500 with a page of its own
Uncaught(s, msg, e) ==
    \/ req' = [req EXCEPT ![s] = [e EXCEPT !.pc = "rejected"]]
    \/ Respond(s, [status |-> 500, html |-> msg], e)

\* the table of model M takes another row
RoomFor(M) == autoInc[M] <= MaxRows

----------------------------------------------------------------------------
(* Eager loading: the include option of findAll and findByPk *)

\* the associations of models/index.js, each declared under an alias
Associations ==
    { [source |-> "Teacher", target |-> "Course",  as |-> "courses"],
      [source |-> "Course",  target |-> "Teacher", as |-> "teacher"],
      [source |-> "Course",  target |-> "Student", as |-> "students"],
      [source |-> "Student", target |-> "Course",  as |-> "courses"] }

\* every attribute of the included model
AllAttributes == {"*"}

\* an element of an include array; as is "" when the element names no alias
Directive(model, attributes, nested) ==
    [model |-> model, as |-> "", attributes |-> attributes, include |-> nested]

\* Model._getIncludedAssociation: "" when the element names an association
\* of model M, else the message of the EagerLoadingError
EagerLoadingMessage(M, d) ==
    LET to == {a \in Associations : a.source = M /\ a.target = d.model}
    IN  IF to = {} THEN d.model \o " is not associated to " \o M \o "!"
        ELSE IF \E a \in to : a.as = d.as THEN ""
        ELSE d.model \o " is associated to " \o M \o " using an alias. "
             \o "You must use the 'as' keyword to specify the alias within "
             \o "your include statement."

RECURSIVE IncludeError(_, _)
\* the error of the first element of an include array that names no
\* association, "" when every element names one
IncludeError(M, include) ==
    IF Len(include) = 0 THEN ""
    ELSE IF EagerLoadingMessage(M, Head(include)) # ""
         THEN EagerLoadingMessage(M, Head(include))
    ELSE IF IncludeError(Head(include).model, Head(include).include) # ""
         THEN IncludeError(Head(include).model, Head(include).include)
    ELSE IncludeError(M, Tail(include))

\* populate.split(',').map(p => p.trim())
Tags(populate) ==
    {trim(split(populate)[i]) : i \in 1..Len(split(populate))}

\* (req.query.populate || 'none').toLowerCase()
PopulateOrNone(populate) ==
    toLowerCase(IF populate \in {undefined, ""} THEN "none" ELSE populate)

\* the message of the TypeError a handler raises on a populate parameter
\* that is not a string, "" when it raises none: getAllTeachers of the first
\* teacher controller does not read the parameter
NotAFunction(ctl, op, populate) ==
    IF populate # ArrayValue THEN ""
    ELSE CASE ctl \in {"teacherB", "course"} -> "populate.split is not a function"
           [] ctl = "teacherA" /\ op = "list" -> ""
           [] OTHER -> "(req.query.populate || \"none\").toLowerCase is not a function"

\* the handlers that read req.query.populate before their try block
OutsideTry(ctl, op) ==
    \/ ctl = "student" /\ op = "list"
    \/ ctl = "teacherA" /\ op = "get"

\* the include array each handler builds from req.query.populate
Include(ctl, op, populate) ==
    LET given == populate \notin {undefined, ""}
        has(tag) == given /\ ({tag, "all"} \cap Tags(populate) # {})
    IN  CASE ctl = "student" ->
               IF PopulateOrNone(populate) = "courses"
               THEN <<Directive("Course",
                                {"id", "title", "description", "teacherId",
                                 "createdAt", "updatedAt"}, <<>>)>>
               ELSE <<Directive("Course", {"id"}, <<>>)>>
          [] ctl = "teacherA" ->
               IF op = "list" \/ PopulateOrNone(populate) = "courses"
               THEN <<Directive("Course", {"id", "title", "description"}, <<>>)>>
               ELSE <<>>
          [] ctl = "teacherB" ->
               IF has("courses")
               THEN <<Directive("Course", AllAttributes,
                                <<Directive("Student", AllAttributes, <<>>)>>)>>
               ELSE <<>>
          [] ctl = "course" ->
               (IF has("teacher")
                THEN <<Directive("Teacher", AllAttributes, <<>>)>> ELSE <<>>)
               \o (IF has("students")
                   THEN <<Directive("Student", AllAttributes, <<>>)>> ELSE <<>>)

----------------------------------------------------------------------------
(* Program constants of the list handlers *)

DefaultLimit == 10

DefaultPage == 1

MinLimit == 1

MaxLimit == 100

MinPage == 1

----------------------------------------------------------------------------
(* Create *)

\* fault seeded for C10: the failure of a create reported as a 400
CatchCreateAsBadRequest(msg) == BadRequest(msg)

\* catch (err) of a create handler
CatchCreate(msg) == InternalError(msg)

\* the INSERT of instance inst by the request e of slot s
Insert(s, M, inst, e) ==
    IF UniqueViolation(M, inst, Attributes(M), 0)
    THEN /\ Respond(s, CatchCreate(UniqueMessage), e)
         /\ UNCHANGED <<db, autoInc, minted>>
    ELSE /\ RoomFor(M)
         /\ db' = [db EXCEPT ![M] = @ \cup {NewRow(M, inst)}]
         /\ autoInc' = [autoInc EXCEPT ![M] = @ + 1]
         /\ minted' = minted \cup {<<M, year, Head(e.issued) = "count">>}
         /\ Respond(s, Created(NewRow(M, inst)), e)

\* db.<Model>.create(req.body) up to its first query: build, validate,
\* then the count of beforeCreate when the code is missing, else the INSERT
create(s, ctl, body) ==
    /\ req[s].pc = "idle"
    /\ Serves(ctl, "create")
    /\ body \in CreateBodies(ModelOf(ctl))
    /\ LET M    == ModelOf(ctl)
           inst == build(M, body)
           msg  == validate(M, inst, Attributes(M))
           e    == [Arrived(ctl, "create", 0, body, NoQuery)
                       EXCEPT !.hist = CreateHistory(M)]
       IN  IF msg # ""
           THEN /\ Respond(s, CatchCreate(msg), e)
                /\ UNCHANGED <<db, autoInc, minted>>
           ELSE IF NeedsCode(M, inst)
           THEN /\ Await(s, "insert",
                         [e EXCEPT !.inst = beforeCreate(M, inst, count(M), year),
                                   !.total = count(M),
                                   !.issued = <<"count">>])
                /\ UNCHANGED <<db, autoInc, minted>>
           ELSE Insert(s, M, inst, [e EXCEPT !.inst = inst, !.issued = <<"insert">>])
    /\ UNCHANGED <<year, target, gone>>

\* the INSERT that follows the count of beforeCreate
createInsert(s) ==
    /\ req[s].pc = "insert"
    /\ Insert(s, ModelOf(req[s].ctl), req[s].inst,
              [req[s] EXCEPT !.issued = Append(@, "insert")])
    /\ UNCHANGED <<year, target, gone>>

createStudent(s) == \E body \in CreateBodies("Student") : create(s, "student", body)

createTeacherA(s) == \E body \in CreateBodies("Teacher") : create(s, "teacherA", body)

createTeacherB(s) == \E body \in CreateBodies("Teacher") : create(s, "teacherB", body)

createCourse(s) == \E body \in CreateBodies("Course") : create(s, "course", body)

----------------------------------------------------------------------------
(* List *)

\* the controllers whose list handler checks limit, page and sort
Validates(ctl) == ctl \in {"teacherB", "course"}

\* req.query.sort || 'desc'
SortOrDefault(sort) == IF sort \in {undefined, ""} THEN "desc" ELSE sort

\* the direction of the order clause
Direction(ctl, sort) ==
    IF Validates(ctl)
    THEN (IF SortOrDefault(sort) = "asc" THEN "ASC" ELSE "DESC")
    ELSE (IF sort = "desc" THEN "DESC" ELSE "ASC")

\* the sortBy whitelist of each list handler; the handlers that validate
\* their query have none
Whitelist(ctl) ==
    CASE ctl = "student"  -> {"id", "name", "email", "createdAt", "updatedAt"}
      [] ctl = "teacherA" -> {"id", "name", "department", "createdAt", "updatedAt"}
      [] OTHER -> {}

\* fault seeded for C17: the supplied sortBy handed to the order clause
SortByUnchecked(ctl, sortBy) == sortBy

\* the field of the order clause
SortByOrDefault(ctl, sortBy) ==
    IF Validates(ctl) THEN "createdAt"
    ELSE IF sortBy \in Whitelist(ctl) THEN sortBy ELSE "id"

\* the options of the findAll of a list handler
QueryOptions(ctl, limit, page, query) ==
    [limit   |-> limit,
     offset  |-> (page - 1) * limit,
     order   |-> <<SortByOrDefault(ctl, query.sortBy), Direction(ctl, query.sort)>>,
     include |-> Include(ctl, "list", query.populate)]

\* the 400 message of the validation block, "" when the query passes
QueryError(limit, page, sort) ==
    IF limit < MinLimit \/ limit > MaxLimit THEN "Limit must be between 1 and 100"
    ELSE IF page < MinPage THEN "Page must be greater than 0"
    ELSE IF SortOrDefault(sort) \notin {"asc", "desc"}
         THEN "Sort must be either asc or desc"
    ELSE ""

\* the meta object of the envelope
Meta(ctl, total, page, limit) ==
    IF Validates(ctl)
    THEN [totalItems |-> total, page |-> page,
          totalPages |-> ceil(total, limit), limit |-> limit]
    ELSE [totalItems |-> total, page |-> page, totalPages |-> ceil(total, limit)]

\* a list handler up to its first query: parse, validate, count
getAll(s, ctl, query) ==
    /\ req[s].pc = "idle"
    /\ ctl = target
    /\ LET limit == OrDefault(parseInt(query.limit), DefaultLimit)
           page  == OrDefault(parseInt(query.page), DefaultPage)
           e     == [Arrived(ctl, "list", 0, NoBody, query)
                        EXCEPT !.limit = limit, !.page = page]
           bad   == IF Validates(ctl) THEN QueryError(limit, page, query.sort) ELSE ""
           err   == NotAFunction(ctl, "list", query.populate)
       IN  IF err # "" /\ OutsideTry(ctl, "list")
           THEN Uncaught(s, err, e)
           ELSE IF bad # ""
           THEN Respond(s, BadRequest(bad), e)
           ELSE IF err # ""
           THEN Respond(s, InternalError(err), e)
           ELSE Await(s, "findAll",
                      [e EXCEPT !.total = count(ModelOf(ctl)),
                                !.opts = QueryOptions(ctl, limit, page, query),
                                !.issued = <<"count">>])
    /\ UNCHANGED <<db, autoInc, year, target, minted, gone>>

\* the findAll of a list handler and its envelope
getAllFind(s) ==
    /\ req[s].pc = "findAll"
    /\ LET r   == req[s]
           M   == ModelOf(r.ctl)
           e   == [r EXCEPT !.issued = Append(@, "findAll")]
           bad == IncludeError(M, r.opts.include)
       IN  IF bad # ""
           THEN Respond(s, InternalError(bad), r)
           ELSE IF RejectsWindow(r.opts.limit, r.opts.offset)
           THEN Respond(s, InternalError(WindowMessage), e)
           ELSE Respond(s,
                    [status |-> 200,
                     meta   |-> Meta(r.ctl, r.total, r.page, r.limit),
                     data   |-> findAll(M, r.opts.limit, r.opts.offset,
                                        r.opts.order[2])],
                    e)
    /\ UNCHANGED <<db, autoInc, year, target, minted, gone>>

getAllStudents(s) == \E query \in Queries : getAll(s, "student", query)

getAllTeachersA(s) == \E query \in Queries : getAll(s, "teacherA", query)

getAllTeachersB(s) == \E query \in Queries : getAll(s, "teacherB", query)

getAllCourses(s) == \E query \in Queries : getAll(s, "course", query)

----------------------------------------------------------------------------
(* GetById, Update, Delete *)

\* the message of the 404 response of each handler
NotFoundMessage(ctl, op) ==
    CASE ctl = "course" -> "Course not found"
      [] ctl = "teacherB" -> "Teacher not found"
      [] ctl = "student" /\ op = "delete" -> "Student not found"
      [] OTHER -> "Not found"

\* the message of the 200 response of each delete handler
DeletedMessage(ctl) ==
    CASE ctl = "course" -> "Course deleted successfully"
      [] ctl = "teacherB" -> "Teacher deleted successfully"
      [] ctl = "student" -> "Student deleted successfully"
      [] OTHER -> "Deleted successfully"

\* the attributes option of the findByPk of a GetById handler
Projection(ctl) ==
    IF ctl = "teacherA"
    THEN {"id", "name", "department", "createdAt", "updatedAt"}
    ELSE AllAttributes

\* the attributes of a row a find returns under an attributes option
Project(row, attributes) ==
    IF attributes = AllAttributes THEN row
    ELSE [f \in DOMAIN row \cap attributes |-> row[f]]

\* fault seeded for C23: findOrCreate in the place of findByPk, so that a
\* GetById of a missing id stores a row
getByIdOrCreate(s, ctl, id, populate) ==
    /\ req[s].pc = "idle"
    /\ ctl = target
    /\ LET M   == ModelOf(ctl)
           row == findByPk(M, id)
           e   == [Arrived(ctl, "get", id, NoBody, [NoQuery EXCEPT !.populate = populate])
                      EXCEPT !.issued = <<"findOrCreate">>]
       IN  IF row = null
           THEN /\ db' = [db EXCEPT ![M] = @ \cup {NewRow(M, build(M, NoBody))}]
                /\ Respond(s, Ok(NewRow(M, build(M, NoBody))), e)
           ELSE /\ db' = db
                /\ Respond(s, Ok(row), e)
    /\ UNCHANGED <<autoInc, year, target, minted, gone>>

\* a GetById handler: the include array, findByPk, then 404 or the row
getById(s, ctl, id, populate) ==
    /\ req[s].pc = "idle"
    /\ ctl = target
    /\ LET M   == ModelOf(ctl)
           row == findByPk(M, id)
           q   == Arrived(ctl, "get", id, NoBody, [NoQuery EXCEPT !.populate = populate])
           a   == [q EXCEPT !.opts.include = Include(ctl, "get", populate)]
           e   == [a EXCEPT !.issued = <<"findByPk">>]
           bad == IncludeError(M, a.opts.include)
           err == NotAFunction(ctl, "get", populate)
       IN  IF err # ""
           THEN IF OutsideTry(ctl, "get")
                THEN Uncaught(s, err, q)
                ELSE Respond(s, InternalError(err), q)
           ELSE IF bad # ""
           THEN Respond(s, InternalError(bad), a)
           ELSE IF row = null
           THEN Respond(s, NotFound(NotFoundMessage(ctl, "get")), e)
           ELSE Respond(s, Ok(Project(row, Projection(ctl))), e)
    /\ UNCHANGED <<db, autoInc, year, target, minted, gone>>

\* an Update handler up to the end of its findByPk
update(s, ctl, id, body) ==
    /\ req[s].pc = "idle"
    /\ Serves(ctl, "update")
    /\ body \in UpdateBodies(ModelOf(ctl))
    /\ LET row == findByPk(ModelOf(ctl), id)
           e   == [Arrived(ctl, "update", id, body, NoQuery)
                      EXCEPT !.issued = <<"findByPk">>]
       IN  IF row = null
           THEN Respond(s, NotFound(NotFoundMessage(ctl, "update")), e)
           ELSE Await(s, "update", [e EXCEPT !.inst = row])
    /\ UNCHANGED <<db, autoInc, year, target, minted, gone>>

\* the attributes instance.update(body) sets: the keys of the payload
Supplied(M, body) == DOMAIN body \cap Attributes(M)

\* the columns instance.update(body) changes
Changed(M, inst, body) ==
    {f \in DOMAIN body \cap Attributes(M) : body[f] # inst[f]}

\* the instance after instance.set(body)
Merged(M, inst, body) ==
    [f \in DOMAIN inst |-> IF f \in Changed(M, inst, body) THEN body[f] ELSE inst[f]]

\* fault seeded for C16: a save that writes every column of the instance
\* read by findByPk, not only the changed ones
updateSaveEveryColumn(s) ==
    /\ req[s].pc = "update"
    /\ LET r      == req[s]
           M      == ModelOf(r.ctl)
           merged == Merged(M, r.inst, r.body)
           msg    == validate(M, merged, Supplied(M, r.body))
           e      == [r EXCEPT !.issued = Append(@, "update")]
       IN  IF msg # ""
           THEN Respond(s, InternalError(msg), r) /\ UNCHANGED db
           ELSE IF UniqueViolation(M, merged, Attributes(M), r.inst.id)
           THEN Respond(s, InternalError(UniqueMessage), e) /\ UNCHANGED db
           ELSE /\ db' = [db EXCEPT ![M] =
                            {IF row.id = r.inst.id THEN merged ELSE row : row \in @}]
                /\ Respond(s, Ok(merged), e)
    /\ UNCHANGED <<autoInc, year, target, minted, gone>>

\* instance.update(req.body): validate the attributes the payload sets,
\* then UPDATE the changed columns in the row with the id of the instance
updateSave(s) ==
    /\ req[s].pc = "update"
    /\ LET r       == req[s]
           M       == ModelOf(r.ctl)
           changed == Changed(M, r.inst, r.body)
           merged  == Merged(M, r.inst, r.body)
           msg     == validate(M, merged, Supplied(M, r.body))
           e       == [r EXCEPT !.issued = Append(@, "update")]
       IN  IF msg # ""
           THEN Respond(s, InternalError(msg), r) /\ UNCHANGED db
           ELSE IF changed = {}
           THEN Respond(s, Ok(merged), r) /\ UNCHANGED db
           ELSE IF UniqueViolation(M, merged, changed, r.inst.id)
           THEN Respond(s, InternalError(UniqueMessage), e) /\ UNCHANGED db
           ELSE /\ db' = [db EXCEPT ![M] =
                            {IF row.id = r.inst.id
                             THEN [f \in DOMAIN row |->
                                      IF f \in changed THEN merged[f] ELSE row[f]]
                             ELSE row : row \in @}]
                /\ Respond(s, Ok(merged), e)
    /\ UNCHANGED <<autoInc, year, target, minted, gone>>

\* a Delete handler up to the end of its findByPk
delete(s, ctl, id) ==
    /\ req[s].pc = "idle"
    /\ Serves(ctl, "delete")
    /\ LET row == findByPk(ModelOf(ctl), id)
           e   == [Arrived(ctl, "delete", id, NoBody, NoQuery)
                      EXCEPT !.issued = <<"findByPk">>,
                             !.hist = DeleteHistory(ModelOf(ctl), id)]
       IN  IF row = null
           THEN Respond(s, NotFound(NotFoundMessage(ctl, "delete")), e)
           ELSE Await(s, "destroy", [e EXCEPT !.inst = row])
    /\ UNCHANGED <<db, autoInc, year, target, minted, gone>>

\* the courses that refer to teacher id, their TeacherId set to NULL
SetNull(courses, id) ==
    {IF c.TeacherId = id THEN [c EXCEPT !.TeacherId = NoTeacher] ELSE c : c \in courses}

\* fault seeded for C19: the foreign key declared with onDelete: 'CASCADE'
onDeleteCascade(courses, id) == {{c \in courses : c.TeacherId # id}}

\* the Course tables the DELETE of teacher id can leave: the foreign key of
\* Teacher.hasMany(Course) is created ON DELETE SET NULL by sync(), and is
\* without effect in a store that does not enforce it
onDelete(courses, id) == {courses, SetNull(courses, id)}

\* fault seeded for C4: a destroy that answers without deleting the row
destroyNothing(s) ==
    /\ req[s].pc = "destroy"
    /\ gone' = gone \cup {<<ModelOf(req[s].ctl), req[s].id>>}
    /\ Respond(s, Deleted(DeletedMessage(req[s].ctl)),
               [req[s] EXCEPT !.issued = Append(@, "destroy")])
    /\ UNCHANGED <<db, autoInc, year, target, minted>>

\* instance.destroy(): DELETE the row with the id of the instance
destroy(s) ==
    /\ req[s].pc = "destroy"
    /\ LET r == req[s]
           M == ModelOf(r.ctl)
       IN  /\ IF M = "Teacher"
              THEN \E courses \in onDelete(db["Course"], r.inst.id) :
                      db' = [db EXCEPT ![M] = {row \in @ : row.id # r.inst.id},
                                       !["Course"] = courses]
              ELSE db' = [db EXCEPT ![M] = {row \in @ : row.id # r.inst.id}]
           /\ gone' = gone \cup {<<M, r.id>>}
           /\ Respond(s, Deleted(DeletedMessage(r.ctl)),
                      [r EXCEPT !.issued = Append(@, "destroy")])
    /\ UNCHANGED <<autoInc, year, target, minted>>

getStudentById(s) ==
    \E id \in Ids, populate \in PopulateParams : getById(s, "student", id, populate)

getTeacherByIdA(s) ==
    \E id \in Ids, populate \in PopulateParams : getById(s, "teacherA", id, populate)

getTeacherByIdB(s) ==
    \E id \in Ids, populate \in PopulateParams : getById(s, "teacherB", id, populate)

getCourseById(s) ==
    \E id \in Ids, populate \in PopulateParams : getById(s, "course", id, populate)

updateStudent(s) ==
    \E id \in Ids, body \in UpdateBodies("Student") : update(s, "student", id, body)

updateTeacherA(s) ==
    \E id \in Ids, body \in UpdateBodies("Teacher") : update(s, "teacherA", id, body)

updateTeacherB(s) ==
    \E id \in Ids, body \in UpdateBodies("Teacher") : update(s, "teacherB", id, body)

updateCourse(s) ==
    \E id \in Ids, body \in UpdateBodies("Course") : update(s, "course", id, body)

deleteStudent(s) == \E id \in Ids : delete(s, "student", id)

deleteTeacherA(s) == \E id \in Ids : delete(s, "teacherA", id)

deleteTeacherB(s) == \E id \in Ids : delete(s, "teacherB", id)

deleteCourse(s) == \E id \in Ids : delete(s, "course", id)

----------------------------------------------------------------------------
(* The CourseStudent join table: models/index.js *)

\* fault seeded for C8: the (StudentId, CourseId) index declared without
\* unique: true
PairTakenNotChecked(StudentId, CourseId) == FALSE

\* the unique index on (StudentId, CourseId) refuses a second row of a pair
PairTaken(StudentId, CourseId) ==
    \E row \in db["CourseStudent"] :
        row.StudentId = StudentId /\ row.CourseId = CourseId

\* db.CourseStudent.create({ StudentId, CourseId }): one INSERT
enroll(s) ==
    /\ req[s].pc = "idle"
    /\ target = "enrollment"
    /\ \E StudentId \in 1..MaxRows, CourseId \in 1..MaxRows :
         LET pair == [StudentId |-> StudentId, CourseId |-> CourseId]
             row  == [id |-> autoInc["CourseStudent"],
                      StudentId |-> StudentId, CourseId |-> CourseId]
             e    == [Arrived("enrollment", "create", 0, pair, NoQuery)
                         EXCEPT !.issued = <<"insert">>,
                                !.hist.held = PairTaken(StudentId, CourseId)]
         IN  IF PairTaken(StudentId, CourseId)
             THEN /\ Respond(s, [status |-> 0, error |-> UniqueMessage], e)
                  /\ UNCHANGED <<db, autoInc>>
             ELSE /\ RoomFor("CourseStudent")
                  /\ db' = [db EXCEPT !["CourseStudent"] = @ \cup {row}]
                  /\ autoInc' = [autoInc EXCEPT !["CourseStudent"] = @ + 1]
                  /\ Respond(s, [status |-> 0, body |-> row], e)
    /\ UNCHANGED <<year, target, minted, gone>>

----------------------------------------------------------------------------
(* Environment *)

\* the client has read the response, or has given up waiting for one; the
\* slot takes the next request
Release(s) ==
    /\ req[s].pc \in {"done", "rejected"}
    /\ req' = [req EXCEPT ![s] = Idle]
    /\ UNCHANGED <<db, autoInc, year, target, minted, gone>>

\* the calendar year turns
NewYear ==
    /\ year + 1 \in Years
    /\ year' = year + 1
    /\ UNCHANGED <<db, autoInc, req, target, minted, gone>>

----------------------------------------------------------------------------
(* Specifications *)

Init ==
    /\ db = [M \in Tables |-> {}]
    /\ autoInc = [M \in Tables |-> 1]
    /\ year = 2025
    /\ req = [s \in Slots |-> Idle]
    /\ target \in Targets
    /\ minted = {}
    /\ gone = {}

\* a step of a handler that writes single rows
Write(s) ==
    \/ createStudent(s) \/ createTeacherA(s) \/ createTeacherB(s) \/ createCourse(s)
    \/ createInsert(s)
    \/ updateStudent(s) \/ updateTeacherA(s) \/ updateTeacherB(s) \/ updateCourse(s)
    \/ updateSave(s)
    \/ deleteStudent(s) \/ deleteTeacherA(s) \/ deleteTeacherB(s) \/ deleteCourse(s)
    \/ destroy(s)
    \/ enroll(s)
    \/ Release(s)

\* a step of a handler that reads rows
List(s) ==
    \/ getAllStudents(s) \/ getAllTeachersA(s) \/ getAllTeachersB(s) \/ getAllCourses(s)
    \/ getAllFind(s)
    \/ getStudentById(s) \/ getTeacherByIdA(s) \/ getTeacherByIdB(s) \/ getCourseById(s)

\* every handler, the requests coming one after the other (slot 1 only)
Next == Write(1) \/ List(1) \/ NewYear

Spec == Init /\ [][Next]_vars

\* overlapping requests within one calendar year: every slot takes
\* requests, of the handlers that write single rows
NextConc == \E s \in Slots : Write(s)

SpecConc == Init /\ [][NextConc]_vars

----------------------------------------------------------------------------
(* Properties *)

Done(s) == req[s].pc = "done"

\* the table a request addresses
TableOf(r) == db[ModelOf(r.ctl)]

\* a list request whose limit parameter is a number outside [1,100] or
\* whose page parameter is a number below 1
OutOfRange(q) ==
    LET l  == parseInt(q.limit)
        pg == parseInt(q.page)
    IN  \/ ~l.nan /\ (l.val < 1 \/ l.val > 100)
        \/ ~pg.nan /\ pg.val < 1

\* C1: every List request whose limit is outside [1,100] or whose page is
\* below 1 is answered 400, and has sent neither its count nor its find
\* query to the store.
C1_OutOfRangeListIsRejected ==
    \A s \in Slots :
        (req[s].op = "list" /\ OutOfRange(req[s].query))
            => /\ Done(s)
               /\ req[s].res.status = 400
               /\ req[s].issued = <<>>

\* a finished create whose payload passes validation and carries no code
MintingCreate(s, ctl) ==
    /\ Done(s)
    /\ req[s].op = "create"
    /\ req[s].ctl = ctl
    /\ ~Has(req[s].body, CodeField(ModelOf(ctl)))
    /\ validate(ModelOf(ctl), build(ModelOf(ctl), req[s].body),
                Attributes(ModelOf(ctl))) = ""

\* no stored row other than the one the request created holds its email
EmailFree(s) ==
    \A r \in TableOf(req[s]) :
        r.email = req[s].body.email
            => req[s].res.status = 201 /\ r = req[s].res.body

\* C2: of two Student creates without studentId made one after the other
\* in the same year, whatever creates and deletes came before or between
\* them, the second succeeds as the first did, with a studentId no other
\* student holds.
C2_SequentialCreatesMintDistinctIds ==
    \A s \in Slots :
        (MintingCreate(s, "student") /\ TRUE \in req[s].hist.seen /\ EmailFree(s))
            => /\ req[s].res.status = 201
               /\ \A r \in db["Student"] :
                    r.studentId = req[s].res.body.studentId => r = req[s].res.body

\* C3: a GetById, Update or Delete whose id matches no stored row when its
\* lookup runs is answered 404 in that step, and the step leaves every
\* table as it was.
C3_MissingIdIs404 ==
    [][\A s \in Slots :
          ( /\ req[s].pc = "idle"
            /\ req'[s].op \in {"get", "update", "delete"}
            /\ ~\E r \in TableOf(req'[s]) : r.id = req'[s].id )
              => /\ req'[s].pc = "done"
                 /\ req'[s].res.status = 404
                 /\ db' = db]_vars

\* C4: with requests coming one after the other, a Delete of a stored id
\* is answered 200, a later Delete of the same id is answered 404, and the
\* row is absent after each.
C4_DeleteTwice ==
    \A s \in Slots :
        (Done(s) /\ req[s].op = "delete")
            => /\ req[s].hist.held => req[s].res.status = 200
               /\ req[s].hist.again => req[s].res.status = 404
               /\ ~\E r \in TableOf(req[s]) : r.id = req[s].id

C4_Witness ==
    \E s \in Slots :
        /\ Done(s)
        /\ req[s].op = "delete"
        /\ req[s].hist.again
        /\ req[s].res.status = 404

\* C5: in every 200 List response totalPages is the least number of pages
\* of the effective limit that hold totalItems rows, and data has at most
\* limit rows.
C5_Envelope ==
    \A s \in Slots :
        (Done(s) /\ req[s].op = "list" /\ req[s].res.status = 200)
            => LET m == req[s].res.meta
                   l == req[s].limit
               IN  /\ m.totalPages * l >= m.totalItems
                   /\ (m.totalPages - 1) * l < m.totalItems
                   /\ Len(req[s].res.data) <= l

C5_Witness ==
    \E s \in Slots :
        /\ Done(s)
        /\ req[s].op = "list"
        /\ req[s].res.status = 200
        /\ req[s].limit = 1
        /\ req[s].res.meta.totalItems = 2
        /\ req[s].res.meta.totalPages = 2
        /\ Len(req[s].res.data) = 1

\* C6: a Student create without studentId that is the first student
\* created in its year is answered 201 with studentId STU<year>0001.
C6_FirstOfYearIs0001 ==
    \A s \in Slots :
        (MintingCreate(s, "student") /\ req[s].hist.seen = {} /\ EmailFree(s))
            => /\ req[s].res.status = 201
               /\ req[s].res.body.studentId
                    = "STU" \o ToString(req[s].hist.year) \o "0001"

\* k written in decimal and zero-padded to width w, for k of one digit
ZeroPadded(k, w) == SubSeq("000", 1, w - 1) \o ToString(k)

\* the code the schema's policy gives a row created when n rows exist
PolicyCode(M, n, y, inst) ==
    CASE M = "Student" -> "STU" \o ToString(y) \o ZeroPadded(n + 1, 4)
      [] M = "Teacher" -> "EMP" \o ToString(y) \o ZeroPadded(n + 1, 4)
      [] M = "Course"  -> DeptPrefix(inst) \o ZeroPadded(n + 1, 3)

\* two creates of the same model, both past the count of beforeCreate and
\* before their INSERT, that read the same count for the same year and prefix
SameCountRead(s, t) ==
    /\ s # t
    /\ req[s].pc = "insert" /\ req[t].pc = "insert"
    /\ ModelOf(req[s].ctl) = ModelOf(req[t].ctl)
    /\ req[s].total = req[t].total
    /\ req[s].hist.year = req[t].hist.year
    /\ ModelOf(req[s].ctl) = "Course"
         => DeptPrefix(req[s].inst) = DeptPrefix(req[t].inst)

\* C7: two overlapping creates without a code that read the same row count
\* before either inserts hold the same generated code, the one the count
\* determines.
C7_SameCountSameCode ==
    \A s, t \in Slots :
        SameCountRead(s, t)
            => LET M == ModelOf(req[s].ctl)
               IN  /\ req[s].inst[CodeField(M)] = req[t].inst[CodeField(M)]
                   /\ req[s].inst[CodeField(M)]
                        = PolicyCode(M, req[s].total, req[s].hist.year, req[s].inst)

C7_Witness ==
    \E s, t \in Slots :
        /\ SameCountRead(s, t)
        /\ req[s].total = 1
        /\ req[s].inst[CodeField(ModelOf(req[s].ctl))]
             = req[t].inst[CodeField(ModelOf(req[t].ctl))]

\* no (StudentId, CourseId) pair has two rows
UniquePairs ==
    \A r, q \in db["CourseStudent"] :
        (r.StudentId = q.StudentId /\ r.CourseId = q.CourseId) => r = q

Required(M) ==
    CASE M = "Student" -> {"name", "email"}
      [] M = "Teacher" -> {"name", "email", "department"}
      [] M = "Course"  -> {"title"}

MissingRequired(M, body) == \E f \in Required(M) : ~Has(body, f)

C10_CreateIs201Or500 ==
    \A s \in Slots :
        (Done(s) /\ req[s].op = "create" /\ req[s].ctl \in Controllers)
            => LET M   == ModelOf(req[s].ctl)
                   msg == validate(M, build(M, req[s].body), Attributes(M))
                   res == req[s].res
               IN  \/ /\ res.status = 201
                      /\ msg = ""
                      /\ res.body.id >= 1
                      /\ \A f \in DOMAIN req[s].body \cap Attributes(M) :
                            res.body[f] = req[s].body[f]
                   \/ /\ res.status = 500
                      /\ res.error = IF msg # "" THEN msg ELSE UniqueMessage

C10_Witness ==
    \E s \in Slots :
        /\ Done(s)
        /\ req[s].op = "create"
        /\ req[s].ctl = "course"
        /\ req[s].res.status = 500
        /\ req[s].res.error = UniqueMessage

\* C11: every List request whose sort parameter is supplied and is neither
\* asc nor desc is answered 400, and has sent no query to the store.
C11_BadSortIsRejected ==
    \A s \in Slots :
        (req[s].op = "list" /\ req[s].query.sort \notin {undefined, "asc", "desc"})
            => /\ Done(s)
               /\ req[s].res.status = 400
               /\ req[s].issued = <<>>

\* the populate tags of each entity and the model each one loads
RelationOf(M, tag) ==
    CASE M = "Student" /\ tag = "courses"  -> "Course"
      [] M = "Teacher" /\ tag = "courses"  -> "Course"
      [] M = "Course"  /\ tag = "teacher"  -> "Teacher"
      [] M = "Course"  /\ tag = "students" -> "Student"
      [] OTHER -> "none"

\* a finished List or GetById request that supplied populate and was not
\* turned away by the validation of limit, page and sort
Populating(s) ==
    /\ Done(s)
    /\ req[s].op \in {"list", "get"}
    /\ req[s].query.populate \notin {undefined, ArrayValue}
    /\ req[s].res.status # 400

\* C12: in every List and GetById request populate is a comma-separated
\* list of tags: each recognised tag puts its relation into the include of
\* the find, with the attributes it has when the tag stands alone, and the
\* request is answered 200 or 404, whatever the other tags are.
C12_PopulateTags ==
    \A s \in Slots :
        Populating(s)
            => /\ req[s].res.status \in {200, 404}
               /\ \A tag \in Tags(req[s].query.populate) :
                     RelationOf(ModelOf(req[s].ctl), tag) # "none"
                         => \E i \in 1..Len(req[s].opts.include) :
                               /\ req[s].opts.include[i].model
                                    = RelationOf(ModelOf(req[s].ctl), tag)
                               /\ req[s].opts.include[i]
                                    \in {Include(req[s].ctl, req[s].op, tag)[j] :
                                           j \in 1..Len(Include(req[s].ctl, req[s].op, tag))}

\* C13: the include every List and GetById handler builds has depth at most
\* one: no included relation carries an include of its own.
C13_IncludeDepthAtMostOne ==
    \A s \in Slots :
        \A i \in 1..Len(req[s].opts.include) :
            req[s].opts.include[i].include = <<>>

\* C14: an Update of a Teacher id that matches no stored teacher is answered
\* 404 with the body {message: "Teacher not found"} in the step of its
\* lookup, and writes nothing.
C14_MissingTeacherUpdate ==
    [][\A s \in Slots :
          ( /\ req[s].pc = "idle"
            /\ req'[s].op = "update"
            /\ ModelOf(req'[s].ctl) = "Teacher"
            /\ ~\E r \in db["Teacher"] : r.id = req'[s].id )
              => /\ req'[s].pc = "done"
                 /\ req'[s].res = [status |-> 404, message |-> "Teacher not found"]
                 /\ db' = db]_vars

\* d is a date of the calendar, not NULL
IsDate(d) == d \in {"2026-01-05", "2026-02-01", "2026-03-01"}

\* date a is strictly after date b
After(a, b) ==
    \/ a = "2026-02-01" /\ b = "2026-01-05"
    \/ a = "2026-03-01" /\ b \in {"2026-01-05", "2026-02-01"}

\* a course record with both dates set has its endDate after its startDate
DatesOrdered(c) ==
    (IsDate(c.startDate) /\ IsDate(c.endDate)) => After(c.endDate, c.startDate)

\* the course of slot s after its update payload is applied to its record
UpdatedCourse(s) ==
    [f \in DOMAIN req[s].inst |->
        IF Has(req[s].body, f) THEN req[s].body[f] ELSE req[s].inst[f]]

\* C15: every stored Course with both startDate and endDate has endDate
\* strictly after startDate; a create or an update that would store a
\* course without this is answered with an error and changes no table.
C15_EndDateAfterStartDate ==
    /\ [](\A c \in db["Course"] : DatesOrdered(c))
    /\ [][\A s \in Slots :
            ( \/ /\ req[s].pc = "idle"
                  /\ req'[s].op = "create"
                  /\ req'[s].ctl = "course"
                  /\ ~DatesOrdered(build("Course", req'[s].body))
               \/ /\ req[s].pc = "update"
                  /\ req'[s].pc # "update"
                  /\ req[s].ctl = "course"
                  /\ ~DatesOrdered(UpdatedCourse(s)) )
                => /\ req'[s].pc = "done"
                   /\ req'[s].res.status >= 400
                   /\ db' = db]_vars

\* the step of slot s is the save of an Update that is answered 200
UpdateSaved(s) ==
    /\ req[s].pc = "update"
    /\ req'[s].pc = "done"
    /\ req'[s].res.status = 200

TeacherDestroyed(s) ==
    /\ req[s].pc = "destroy"
    /\ req'[s].pc = "done"
    /\ req'[s].res.status = 200
    /\ ModelOf(req[s].ctl) = "Teacher"

\* C19: the destroy of a successful Teacher delete removes the row of that
\* teacher and no other row: every Course row that was stored is still
\* stored, those that referred to the teacher included, and the other
\* teachers and tables are as they were.
C19_TeacherDeleteKeepsCourses ==
    [][\A s \in Slots :
          TeacherDestroyed(s)
              => /\ {c.id : c \in db'["Course"]} = {c.id : c \in db["Course"]}
                 /\ db'["Teacher"] = {t \in db["Teacher"] : t.id # req[s].id}
                 /\ db'["Student"] = db["Student"]
                 /\ db'["CourseStudent"] = db["CourseStudent"]]_vars

C19_Witness ==
    \E s \in Slots :
        /\ Done(s)
        /\ req[s].op = "delete"
        /\ req[s].ctl = "teacherB"
        /\ req[s].res.status = 200
        /\ \E c \in db["Course"] : c.TeacherId = req[s].id

\* a List request that has built the options of its find
Querying(s) ==
    /\ req[s].op = "list"
    /\ req[s].pc = "findAll" \/ (Done(s) /\ req[s].issued # <<>>)

\* the order field the claim gives a list handler for a supplied sortBy
ExpectedOrderField(ctl, sortBy) ==
    CASE ctl = "student" ->
           IF sortBy \in {"id", "name", "email", "createdAt", "updatedAt"}
           THEN sortBy ELSE "id"
      [] ctl = "teacherA" ->
           IF sortBy \in {"id", "name", "department", "createdAt", "updatedAt"}
           THEN sortBy ELSE "id"
      [] OTHER -> "createdAt"

RECURSIVE DigitsFrom(_, _)
\* s holds only digits from position i on
DigitsFrom(s, i) ==
    i > Len(s) \/ (IsDigit(Char(s, i)) /\ DigitsFrom(s, i + 1))

\* s is the decimal notation of an integer
IsInteger(s) ==
    /\ Len(s) > 0
    /\ IF Char(s, 1) = "-" THEN Len(s) > 1 /\ DigitsFrom(s, 2) ELSE DigitsFrom(s, 1)

\* the value of a query parameter: its integer, or d when it is absent or
\* not an integer
IntegerOr(s, d) == IF IsInteger(s) THEN parseInt(s).val ELSE d

\* a query whose limit and page, where they are integers, are in range
InRange(q) ==
    /\ IntegerOr(q.limit, 10) >= 1 /\ IntegerOr(q.limit, 10) <= 100
    /\ IntegerOr(q.page, 1) >= 1

\* C18: every List request with limit and page in range that is not
\* answered 400 hands its find the supplied limit (10 when absent or not an
\* integer) and the offset (page - 1) * limit for the supplied page (1 when
\* absent or not an integer), and its envelope reports that page, and that
\* limit where it reports one.
C18_WindowOfTheQuery ==
    \A s \in Slots :
        (Querying(s) /\ InRange(req[s].query))
            => LET limit == IntegerOr(req[s].query.limit, 10)
                   page  == IntegerOr(req[s].query.page, 1)
               IN  /\ req[s].opts.limit = limit
                   /\ req[s].opts.offset = (page - 1) * limit
                   /\ (Done(s) /\ req[s].res.status = 200)
                        => /\ req[s].res.meta.page = page
                           /\ Has(req[s].res.meta, "limit")
                                => req[s].res.meta.limit = limit

\* the columns of each entity that hold one value per row
UniqueColumns(M) ==
    CASE M = "Student" -> {"email", "studentId"}
      [] M = "Teacher" -> {"email", "employeeId"}
      [] M = "Course"  -> {"courseCode"}

\* no two rows of an entity hold the same value in a unique column
NoDuplicates ==
    \A M \in Models : \A r, q \in db[M] : \A f \in UniqueColumns(M) :
        (r[f] = q[f] /\ r[f] # NULL) => r = q

\* the step of slot s ends a create whose instance holds, in a unique
\* column, a value that a stored row holds
ClashingCreate(s) ==
    /\ req[s].pc \in {"idle", "insert"}
    /\ req'[s].pc = "done"
    /\ req'[s].op = "create"
    /\ req'[s].ctl \in Controllers
    /\ \E f \in UniqueColumns(ModelOf(req'[s].ctl)) \cap DOMAIN req'[s].inst :
          /\ req'[s].inst[f] # NULL
          /\ \E r \in TableOf(req'[s]) : r[f] = req'[s].inst[f]

\* the step of slot s ends an update whose payload would give the stored
\* row it addresses, in a unique column, a value that another row holds
ClashingUpdate(s) ==
    /\ req[s].pc = "update"
    /\ req'[s].pc = "done"
    /\ \E f \in UniqueColumns(ModelOf(req[s].ctl)) \cap DOMAIN req[s].body :
          /\ \E own \in TableOf(req[s]) : own.id = req[s].id /\ own[f] # req[s].body[f]
          /\ \E r \in TableOf(req[s]) : r.id # req[s].id /\ r[f] = req[s].body[f]

\* C20: with overlapping creates and updates, no two Students share a
\* studentId or an email, no two Teachers an employeeId or an email, no
\* two Courses a courseCode; a create or update that would store a value
\* another row holds is answered with an error and changes no table.
C20_UniqueUnderConcurrency ==
    /\ []NoDuplicates
    /\ [][\A s \in Slots :
            (ClashingCreate(s) \/ ClashingUpdate(s))
                => /\ req'[s].res.status >= 400
                   /\ Has(req'[s].res, "error")
                   /\ db' = db]_vars

C20_Witness ==
    \E s \in Slots :
        /\ Done(s)
        /\ req[s].op = "create"
        /\ req[s].ctl = "student"
        /\ req[s].issued = <<"count", "insert">>
        /\ req[s].res = [status |-> 500, error |-> UniqueMessage]
        /\ \E r \in db["Student"] :
              /\ r.studentId = req[s].inst.studentId
              /\ r.email # req[s].inst.email

\* the step of slot s answers a delete that read its row before another
\* delete of the same row ran its destroy, and that runs its own destroy
\* after that delete was answered 200
SecondOfInterleaved(s) ==
    /\ req[s].pc = "destroy"
    /\ req'[s].pc = "done"
    /\ ~req[s].hist.again
    /\ <<ModelOf(req[s].ctl), req[s].id>> \in gone

\* C21: when two Delete requests for the same stored id interleave, each
\* running its find-by-id before either runs its destroy, one of them is
\* answered 200 and the other is answered 404.
C21_InterleavedDeletes ==
    [][\A s \in Slots :
          SecondOfInterleaved(s) => req'[s].res.status = 404]_vars

\* the promise the handler of slot s returned is settled
Settled(s) == req[s].pc \in {"done", "rejected"}

\* C22: every handler sends exactly one response per request on every
\* path: a request whose handler has returned has a response, with status
\* 200, 201, 400, 404 or 500, and a request whose handler has not returned
\* has none yet.
C22_ExactlyOneResponse ==
    \A s \in Slots :
        req[s].ctl \in Controllers
            => /\ Settled(s) => req[s].res.status \in {200, 201, 400, 404, 500}
               /\ ~Settled(s) => req[s].res = NoResponse

\* the step of slot s is a step of a List or a GetById handler
ReadStep(s) ==
    /\ req'[s] # req[s]
    /\ req'[s].op \in {"list", "get"}

\* C23: List and GetById requests, whatever their query parameters and
\* their outcome, leave the store unchanged: every table holds the same
\* rows, with the same fields, after each of their steps as before it.
C23_ReadsLeaveTheStore ==
    [][\A s \in Slots : ReadStep(s) => db' = db /\ autoInc' = autoInc]_vars

C23_Witness ==
    \E s \in Slots :
        /\ Done(s)
        /\ req[s].op = "get"
        /\ req[s].issued = <<"findByPk">>
        /\ req[s].res.status = 404
        /\ TableOf(req[s]) # {}

====
